---- MODULE Spec2Model ----
(***************************************************************************)
(* Model of src/main.py: the initiative summariser.  main() collects the   *)
(* child issues of an initiative, assemble_summary() builds the context    *)
(* and asks the completion endpoint for a first summary, and               *)
(* review_and_post_summary() is the interactive loop in which the operator *)
(* accepts, revises or abandons the summary.                               *)
(*                                                                         *)
(* All text is a sequence of pieces (strings); operator input lines and    *)
(* comment bodies are sequences of one-character strings so that strip(),  *)
(* lower() and the [:200] slice are computed, not assumed.                 *)
(*                                                                         *)
(* The operator always answers a prompt with a line: end of input          *)
(* (EOFError) and interrupts are outside the model.                        *)
(***************************************************************************)
EXTENDS Integers, Sequences, FiniteSets, TLC

VARIABLES
    env,           \* what the run is given: the tracker's content, the arguments,
                   \* instructions.txt (never written by the program)
    pc,            \* position of the process (see PcValues)
    exitStatus,    \* -1 while running; the process exit status afterwards
    instructions,  \* main: instructions = get_instructions()
    nComments,     \* main: args.comments
    child_issues,  \* main: child_issues = fetch_child_issues(...)
    nextChild,     \* main: position of the for-loop over child_issues
    issues_data,   \* main: issues_data
    summary,       \* the summary variable of main / review_and_post_summary
    requests,      \* every client.chat.completions.create(...) call, in order
    posts,         \* every post_summary(...) call, in order, with its result
    inputsRead,    \* number of input(...) calls that returned
    lastPrompt,    \* history: the prompt at which the last input was read
    lastInput,     \* history: the last line read
    lastResponse,  \* history: what the last completion call brought back
    lastReturned,  \* history: content of the last completion call that returned
    revisions      \* history: lines read at '> ' other than a form of 'done'

vars == << env, pc, exitStatus, instructions, nComments, child_issues, nextChild,
           issues_data, summary, requests, posts, inputsRead, lastPrompt,
           lastInput, lastResponse, lastReturned, revisions >>

-----------------------------------------------------------------------------
(* Bounds of the model *)

MaxInputs == 5      \* operator lines read in one run

-----------------------------------------------------------------------------
(* Python values *)

\* Python's None, as message.content of a response can be
NoneValue == "<None>"

\* texts the completion endpoint may generate
Texts == {"draft A", "draft B"}

\* str(x) as an f-string renders it
Str(x) == IF x = NoneValue THEN <<"N", "o", "n", "e">> ELSE <<x>>

-----------------------------------------------------------------------------
(* Operator input: str.strip() and str.lower() *)

IsSpace(c) == c \in {" ", "\t"}

LowerChar(c) ==
    CASE c = "Y" -> "y"
      [] c = "N" -> "n"
      [] c = "D" -> "d"
      [] c = "O" -> "o"
      [] c = "E" -> "e"
      [] c = "S" -> "s"
      [] OTHER -> c

Lower(s) == [i \in 1..Len(s) |-> LowerChar(s[i])]

RECURSIVE LStrip(_)
LStrip(s) == IF s # <<>> /\ IsSpace(Head(s)) THEN LStrip(Tail(s)) ELSE s

RECURSIVE RStrip(_)
RStrip(s) ==
    IF s # <<>> /\ IsSpace(s[Len(s)]) THEN RStrip(SubSeq(s, 1, Len(s) - 1)) ELSE s

Strip(s) == RStrip(LStrip(s))

\* the lines the operator may type
InputLines ==
    { <<"y">>, <<" ", "Y", " ">>, <<"n">>,
      <<"d", "o", "n", "e">>, <<" ", "D", "o", "N", "E", " ">>,
      <<>>, <<"s", "h", "o", "r", "t", "e", "r">> }

-----------------------------------------------------------------------------
(* Tracker data *)

\* body[:200] in assemble_summary
TruncLen == 200

\* a field of a comment: the key is absent, its value is null, or it has a value
Absent == [kind |-> "absent", val |-> <<>>]
Null == [kind |-> "null", val |-> <<>>]
Val(v) == [kind |-> "val", val |-> v]

Comment(u, b) == [user |-> u, body |-> b]

LongBody == [i \in 1..(TruncLen + 1) |-> IF i <= TruncLen THEN "x" ELSE "!"]

\* comment lists of the tracker, oldest first
OneComment == << Comment(Val(<<"alice">>), Val(<<"f", "a", "i", "l", "s">>)) >>

ThreeComments ==
    << Comment(Val(<<"alice">>), Val(<<"o", "l", "d">>)),
       Comment(Absent, Val(LongBody)),
       Comment(Val(<<"bob">>), Absent) >>

NullUserComment == << Comment(Null, Val(<<"h", "i">>)) >>

\* a child issue as the tracker serves it: the outcome of the issue request,
\* the outcome of the comments request and the comment list it carries
Child(issueOutcome, commentsOutcome, cs) ==
    [issue |-> issueOutcome, comments |-> commentsOutcome, list |-> cs]

Env(children, n, text) ==
    [sub_issues |-> children, comments_arg |-> n, instructions_txt |-> text]

\* the runs explored
Envs ==
    { Env(<<>>, 3, "be brief"),
      Env(<< Child("fail", "ok", <<>>) >>, 3, "be brief"),
      Env(<< Child("ok", "not_list", <<>>) >>, 3, "be brief"),
      Env(<< Child("ok", "ok", NullUserComment) >>, 3, "be brief"),
      Env(<< Child("ok", "ok", OneComment) >>, 0, "be formal"),
      Env(<< Child("ok", "ok", ThreeComments), Child("ok", "request_error", OneComment) >>,
          2, "be brief"),
      Env(<< Child("fail", "ok", OneComment), Child("ok", "ok", OneComment) >>,
          3, "be formal") }

\* titles of the child issues, by position in the tracker's list
TitlePool == <<"Bug A", "Bug B", "Bug C", "Bug D">>

\* comments[-n:] if len(comments) >= n else comments
MostRecent(comments, n) ==
    IF Len(comments) >= n
    THEN IF n = 0 THEN comments
         ELSE SubSeq(comments, Len(comments) - n + 1, Len(comments))
    ELSE comments

\* fetch_recent_comments: the result, for each outcome of the request
\*   "ok"            the tracker answered with the list cs
\*   "request_error" requests raised: the except branch returns []
fetch_recent_comments(outcome, cs, n) ==
    IF outcome = "request_error" THEN <<>> ELSE MostRecent(cs, n)

-----------------------------------------------------------------------------
(* assemble_summary: the context *)

\* c.get('user', {}).get('login', 'unknown') raises on a null user;
\* c.get('body', '')[:200] raises on a null body
CommentRaises(c) == c.user.kind = "null" \/ c.body.kind = "null"

CommentUser(c) == IF c.user.kind = "absent" THEN <<"unknown">> ELSE c.user.val

\* a slice that keeps one unit too many
Truncate_offByOne(b) == SubSeq(b, 1, IF Len(b) < TruncLen + 1 THEN Len(b) ELSE TruncLen + 1)

Truncate(b) == SubSeq(b, 1, IF Len(b) < TruncLen THEN Len(b) ELSE TruncLen)

CommentBody(c) == IF c.body.kind = "absent" THEN <<>> ELSE Truncate(c.body.val)

CommentLine(c) == <<"- ">> \o CommentUser(c) \o <<": ">> \o CommentBody(c) \o <<"\n">>

RECURSIVE CommentLines(_)
CommentLines(cs) ==
    IF cs = <<>> THEN <<>> ELSE CommentLine(Head(cs)) \o CommentLines(Tail(cs))

IssueBlock(issue) ==
    <<"Issue: ", issue.title, "\n">> \o CommentLines(issue.comments) \o <<"\n">>

RECURSIVE Context(_)
Context(issues) ==
    IF issues = <<>> THEN <<>> ELSE IssueBlock(Head(issues)) \o Context(Tail(issues))

ContextRaises(issues) ==
    \E i \in 1..Len(issues) :
        \E j \in 1..Len(issues[i].comments) : CommentRaises(issues[i].comments[j])

-----------------------------------------------------------------------------
(* The completion endpoint *)

Response(k, c) == [kind |-> k, content |-> c]

\* what one call to client.chat.completions.create can bring back:
\*   "error"      the call raises (network, auth, quota)
\*   "no_choices" a response whose choices list is empty
\*   "message"    a response whose first choice has the given content
Responses ==
    { Response("error", ""), Response("no_choices", ""),
      Response("message", NoneValue) }
    \cup { Response("message", t) : t \in Texts }

\* create(...) raising, or response.choices[0] raising IndexError
CompletionRaises(r) == r.kind \in {"error", "no_choices"}

\* response.choices[0].message.content
ResponseContent(r) == r.content

Messages(system, user) == [system |-> system, user |-> user]

\* a revision request that leaves the current summary out
RevisionPrompt_noSummary(current, user_instruction) ==
    <<"Please revise it as follows: ">> \o user_instruction

\* the user content of a revision request
RevisionPrompt(current, user_instruction) ==
    <<"Here is the current summary:\n">> \o Str(current)
        \o <<"\n\nPlease revise it as follows: ">> \o user_instruction

-----------------------------------------------------------------------------
(* Positions *)

\* where review_and_post_summary waits for the operator
Prompts == {"AwaitingDecision", "AwaitingInstruction", "AwaitingRevisedDecision"}

\* how review_and_post_summary returns
LoopTerminal == {"Published", "PublishFailed", "Aborted"}

\* "Exited": sys.exit before the review loop was entered
Terminal == LoopTerminal \cup {"Exited"}

PcValues == {"start", "fetch_children", "gather", "assemble"} \cup Prompts \cup Terminal

Init ==
    /\ env \in Envs
    /\ pc = "start"
    /\ exitStatus = -1
    /\ instructions = ""
    /\ nComments = 0
    /\ child_issues = <<>>
    /\ nextChild = 1
    /\ issues_data = <<>>
    /\ summary = ""
    /\ requests = <<>>
    /\ posts = <<>>
    /\ inputsRead = 0
    /\ lastPrompt = "none"
    /\ lastInput = <<>>
    /\ lastResponse = Response("none", "")
    /\ lastReturned = ""
    /\ revisions = 0

\* sys.exit(status)
Exit(status) ==
    /\ pc' = "Exited"
    /\ exitStatus' = status

-----------------------------------------------------------------------------
(* main *)

\* main up to get_instructions(): argument parsing, the two environment
\* checks, github_issue_url_to_api and get_instructions; any of them failing
\* ends the process with status 1
Startup ==
    /\ pc = "start"
    /\ \/ /\ Exit(1)
          /\ UNCHANGED << instructions, nComments >>
       \/ /\ instructions' = env.instructions_txt
          /\ nComments' = env.comments_arg
          /\ pc' = "fetch_children"
          /\ UNCHANGED exitStatus
    /\ UNCHANGED << env, child_issues, nextChild, issues_data, summary, requests,
                    posts, inputsRead, lastPrompt, lastInput, lastResponse,
                    lastReturned, revisions >>

\* child_issues = fetch_child_issues(initiative_url) and the emptiness check;
\* the children are named by their position in the tracker's list
FetchChildIssues ==
    /\ pc = "fetch_children"
    /\ \/ /\ Exit(1)                       \* the request failed
          /\ UNCHANGED << child_issues, nextChild >>
       \/ /\ child_issues' = [i \in 1..Len(env.sub_issues) |-> i]
          /\ nextChild' = 1
          /\ IF child_issues' = <<>>
             THEN Exit(0)
             ELSE pc' = "gather" /\ UNCHANGED exitStatus
    /\ UNCHANGED << env, instructions, nComments, issues_data, summary, requests, posts,
                    inputsRead, lastPrompt, lastInput, lastResponse, lastReturned,
                    revisions >>

\* a pass that loses what was collected when an issue fails
Gathered_dropAll(data, url, child, n) ==
    IF child.issue = "fail" \/ child.comments = "not_list"
    THEN <<>>
    ELSE Append(data, [title |-> TitlePool[url],
                       comments |-> fetch_recent_comments(child.comments, child.list, n)])

\* issues_data after one pass of the for-loop body over url:
\* a failed issue request, or a comments answer that is no list, raises into
\* the loop's except branch and the issue is skipped
Gathered(data, url, child, n) ==
    IF child.issue = "fail" \/ child.comments = "not_list"
    THEN data
    ELSE Append(data, [title |-> TitlePool[url],
                       comments |-> fetch_recent_comments(child.comments, child.list, n)])

\* one pass of "for url in child_issues", and after the last pass the
\* "if not issues_data" check
GatherChild ==
    /\ pc = "gather"
    /\ nextChild <= Len(child_issues)
    /\ issues_data' = Gathered(issues_data, child_issues[nextChild],
                               env.sub_issues[child_issues[nextChild]], nComments)
    /\ nextChild' = nextChild + 1
    /\ IF nextChild' <= Len(child_issues)
       THEN UNCHANGED << pc, exitStatus >>
       ELSE IF issues_data' = <<>>
            THEN Exit(1)
            ELSE pc' = "assemble" /\ UNCHANGED exitStatus
    /\ UNCHANGED << env, instructions, nComments, child_issues, summary, requests, posts,
                    inputsRead, lastPrompt, lastInput, lastResponse, lastReturned,
                    revisions >>

\* summary = assemble_summary(issues_data, instructions): building the
\* context, the completion call and, on any exception, sys.exit(1)
AssembleSummary ==
    /\ pc = "assemble"
    /\ IF ContextRaises(issues_data)
       THEN /\ Exit(1)
            /\ UNCHANGED << summary, requests, lastResponse, lastReturned >>
       ELSE \E r \in Responses :
            /\ requests' = Append(requests, Messages(instructions, Context(issues_data)))
            /\ lastResponse' = r
            /\ IF CompletionRaises(r)
               THEN /\ Exit(1)
                    /\ UNCHANGED << summary, lastReturned >>
               ELSE /\ summary' = ResponseContent(r)
                    /\ lastReturned' = r.content
                    /\ pc' = "AwaitingDecision"
                    /\ UNCHANGED exitStatus
    /\ UNCHANGED << env, instructions, nComments, child_issues, nextChild, issues_data,
                    posts, inputsRead, lastPrompt, lastInput, revisions >>

-----------------------------------------------------------------------------
(* review_and_post_summary *)

\* an answer that takes an empty line for "y"
Confirm_emptyYes(line) == IF Strip(line) = <<>> THEN <<"y">> ELSE Lower(Strip(line))

\* input(...).strip().lower()
Confirm(line) == Lower(Strip(line))

\* a test that also takes an empty line for 'done'
IsDone_orEmpty(user_instruction) ==
    Lower(Strip(user_instruction)) \in { <<"d", "o", "n", "e">>, <<>> }

\* a comparison with 'done' that forgets strip() and lower()
IsDone_exact(user_instruction) == user_instruction = <<"d", "o", "n", "e">>

\* user_instruction.strip().lower() == 'done'
IsDone(user_instruction) == Lower(Strip(user_instruction)) = <<"d", "o", "n", "e">>

\* one call of post_summary(initiative_url, text) and its result
Post(text, ok) == [body |-> text, ok |-> ok]

\* the function returns to main, which ends normally
Return(state) ==
    /\ pc' = state
    /\ exitStatus' = 0

\* a first prompt that asks again after a failed post
AfterFirstPost_retry(ok) == IF ok THEN "Published" ELSE "AwaitingDecision"

\* after post_summary at the first prompt: "break" whatever it returned
AfterFirstPost(ok) == IF ok THEN "Published" ELSE "PublishFailed"

\* a revised prompt that goes back to the first prompt after a failed post
AfterRevisedPost_outer(ok) == IF ok THEN "Published" ELSE "AwaitingDecision"

\* a revised prompt that never returns after posting
AfterRevisedPost_never(ok) == "AwaitingInstruction"

\* after post_summary at the revised prompt: "return" only if it returned True
AfterRevisedPost(ok) == IF ok THEN "Published" ELSE "AwaitingInstruction"

\* a revision that loses the summary when the call raises
Revised_lost(current, r) == IF CompletionRaises(r) THEN NoneValue ELSE ResponseContent(r)

\* a revision whose result is dropped
Revised_dropped(current, r) == current

\* summary after the try block of a revision
Revised(current, r) == IF CompletionRaises(r) THEN current ELSE ResponseContent(r)

\* a revision that asks for confirmation even when the call raised
AfterRevision_always(r) == "AwaitingRevisedDecision"

\* the prompt after the try block of a revision
AfterRevision(r) ==
    IF CompletionRaises(r) THEN "AwaitingInstruction" ELSE "AwaitingRevisedDecision"

\* the forms of 'done' among InputLines
DoneLines == { <<"d", "o", "n", "e">>, <<" ", "D", "o", "N", "E", " ">> }

\* the line read at a prompt
Read(prompt, line) ==
    /\ inputsRead < MaxInputs
    /\ inputsRead' = inputsRead + 1
    /\ lastPrompt' = prompt
    /\ lastInput' = line
    /\ revisions' = IF prompt = "AwaitingInstruction" /\ line \notin DoneLines
                    THEN revisions + 1 ELSE revisions

\* confirm = input("Post this summary ...") and its three branches
Decide(line) ==
    /\ pc = "AwaitingDecision"
    /\ Read("AwaitingDecision", line)
    /\ IF Confirm(line) = <<"y">>
       THEN \E ok \in BOOLEAN :
            /\ posts' = Append(posts, Post(summary, ok))
            /\ Return(AfterFirstPost(ok))
       ELSE /\ pc' = IF Confirm(line) = <<"n">> THEN "AwaitingInstruction"
                                                 ELSE "AwaitingDecision"
            /\ UNCHANGED << posts, exitStatus >>
    /\ UNCHANGED << env, instructions, nComments, child_issues, nextChild, issues_data,
                    summary, requests, lastResponse, lastReturned >>

\* user_instruction = input('> '): 'done', or a revision request
Instruct(line) ==
    /\ pc = "AwaitingInstruction"
    /\ Read("AwaitingInstruction", line)
    /\ IF IsDone(line)
       THEN /\ Return("Aborted")
            /\ UNCHANGED << summary, requests, lastResponse, lastReturned >>
       ELSE \E r \in Responses :
            /\ requests' = Append(requests,
                                  Messages(instructions, RevisionPrompt(summary, line)))
            /\ summary' = Revised(summary, r)
            /\ lastResponse' = r
            /\ lastReturned' = IF r.kind = "message" THEN r.content ELSE lastReturned
            /\ pc' = AfterRevision(r)
            /\ UNCHANGED exitStatus
    /\ UNCHANGED << env, instructions, nComments, child_issues, nextChild, issues_data,
                    posts >>

\* confirm2 = input("Post this revised summary ...") and what follows it
DecideRevised(line) ==
    /\ pc = "AwaitingRevisedDecision"
    /\ Read("AwaitingRevisedDecision", line)
    /\ IF Confirm(line) = <<"y">>
       THEN \E ok \in BOOLEAN :
            /\ posts' = Append(posts, Post(summary, ok))
            /\ IF AfterRevisedPost(ok) \in LoopTerminal
               THEN Return(AfterRevisedPost(ok))
               ELSE pc' = AfterRevisedPost(ok) /\ UNCHANGED exitStatus
       ELSE /\ pc' = "AwaitingInstruction"
            /\ UNCHANGED << posts, exitStatus >>
    /\ UNCHANGED << env, instructions, nComments, child_issues, nextChild, issues_data,
                    summary, requests, lastResponse, lastReturned >>

Next ==
    \/ Startup
    \/ FetchChildIssues
    \/ GatherChild
    \/ AssembleSummary
    \/ \E line \in InputLines : Decide(line)
    \/ \E line \in InputLines : Instruct(line)
    \/ \E line \in InputLines : DecideRevised(line)

Spec == Init /\ [][Next]_vars

TypeOK ==
    /\ pc \in PcValues
    /\ exitStatus \in {-1, 0, 1}
    /\ inputsRead \in 0..MaxInputs

-----------------------------------------------------------------------------
(* Properties of review_and_post_summary *)

YesLines == { <<"y">>, <<" ", "Y", " ">> }

LastPost == posts[Len(posts)]

\* C1: whenever the operator answers "y" at the revised-summary prompt,
\* exactly one publish attempt is made and the loop then ends in a terminal
\* state, Published or PublishFailed; after a failed publish no further input
\* is read and no second publish attempt happens in the same run.
C1_RevisedYesEndsLoop ==
    /\ (lastPrompt = "AwaitingRevisedDecision" /\ lastInput \in YesLines)
          => /\ Len(posts) = 1
             /\ pc = IF LastPost.ok THEN "Published" ELSE "PublishFailed"
    /\ (\E i \in 1..Len(posts) : ~posts[i].ok) => pc = "PublishFailed"
    /\ Len(posts) <= 1

\* C2: whenever the operator answers "y" (trimmed, lower-cased) at the first
\* prompt, exactly one publish attempt is made, with the initial summary, and
\* the loop ends at once whether post_summary returned True or False; the
\* function returns normally and nothing more is read, requested or posted.
C2_FirstYesPostsOnceAndEnds ==
    (lastPrompt = "AwaitingDecision" /\ lastInput \in YesLines)
        => /\ Len(posts) = 1
           /\ Len(requests) = 1
           /\ posts[1].body = lastReturned
           /\ pc = IF posts[1].ok THEN "Published" ELSE "PublishFailed"
           /\ exitStatus = 0
           /\ ~ENABLED Next

C2_Witness ==
    /\ pc = "PublishFailed"
    /\ lastPrompt = "AwaitingDecision"
    /\ lastInput = <<" ", "Y", " ">>
    /\ posts = << Post("draft A", FALSE) >>

\* C3: every publish call carries the current Summary: the text passed to
\* post_summary is the content returned by the most recent completion call
\* that returned (the initial one if no revision returned since), never an
\* earlier draft.
C3_PostCarriesLatestSummary ==
    [][posts' # posts =>
          /\ posts' = Append(posts, LastPost')
          /\ LastPost'.body = lastReturned
          /\ LastPost'.body = lastResponse.content
          /\ lastResponse.kind = "message"]_vars

C3_Witness ==
    /\ Len(requests) = 3
    /\ posts # <<>>
    /\ LastPost.body = "draft B"
    /\ requests[3].user[2] = "draft A"

\* C4: every revision request is self-contained: its system content is the
\* session's instructions, the same as in the initial call, and its user
\* content is the fixed wording around exactly the current summary (the text
\* last returned) and the instruction just read, nothing else.
C4_RevisionRequestSelfContained ==
    [][(requests' # requests /\ pc = "AwaitingInstruction") =>
          /\ Len(requests') = Len(requests) + 1
          /\ SubSeq(requests', 1, Len(requests)) = requests
          /\ requests'[Len(requests')].system = env.instructions_txt
          /\ requests'[Len(requests')].system = requests[1].system
          /\ requests'[Len(requests')].user =
                <<"Here is the current summary:\n">>
                   \o (IF lastReturned = NoneValue THEN <<"N", "o", "n", "e">>
                                                   ELSE <<lastReturned>>)
                   \o <<"\n\nPlease revise it as follows: ">> \o lastInput']_vars

C4_Witness ==
    /\ Len(requests) = 3
    /\ requests[2].user[2] = "draft A"
    /\ requests[3].user[2] = "draft B"
    /\ requests[2].user # requests[3].user
    /\ lastInput = <<"s", "h", "o", "r", "t", "e", "r">>

\* C5: a form of "done" (any letter case, surrounding blanks ignored) at the
\* instruction prompt ends the loop in Aborted with no completion call and no
\* publish call made for it; and publish is only ever called in the step in
\* which the operator answers "y" at a decision prompt.
C5_DoneAbortsWithoutCalls ==
    /\ [][(pc = "AwaitingInstruction" /\ inputsRead' # inputsRead
              /\ lastInput' \in DoneLines)
            => (pc' = "Aborted" /\ requests' = requests /\ posts' = posts)]_vars
    /\ [][posts' # posts
            => (/\ pc \in {"AwaitingDecision", "AwaitingRevisedDecision"}
                /\ inputsRead' # inputsRead
                /\ lastInput' \in YesLines)]_vars
    /\ [](pc = "Aborted" => ~ENABLED Next)

C5_Witness ==
    /\ pc = "Aborted"
    /\ lastInput = <<" ", "D", "o", "N", "E", " ">>
    /\ revisions = 2
    /\ posts = <<>>

\* C6: when a revision completion call raises, the loop stays at the
\* instruction prompt, nothing is published, the process goes on, and the
\* summary still is the text last returned; that text is what the next
\* revision request and any later publish use.
C6_FailedRevisionKeepsSummary ==
    /\ [][(pc = "AwaitingInstruction" /\ requests' # requests
              /\ lastResponse'.kind \in {"error", "no_choices"})
            => /\ pc' = "AwaitingInstruction"
               /\ posts' = posts
               /\ exitStatus' = -1
               /\ summary' = summary
               /\ summary' = lastReturned']_vars
    /\ [](pc \in Prompts => summary = lastReturned)
    /\ [](pc = "AwaitingInstruction" => ENABLED (\E l \in InputLines : Instruct(l))
                                        \/ inputsRead = MaxInputs)

C6_Witness ==
    /\ pc = "AwaitingInstruction"
    /\ lastResponse.kind = "no_choices"
    /\ Len(requests) = 3
    /\ summary = "draft B"
    /\ requests[3].user[2] = "draft B"

\* C7: a completion response without usable text (no choices, or a first
\* choice whose content is null) is a failed completion like a remote error:
\* at the initial call the session ends, at a revision the summary is kept
\* and the instruction prompt returns; so the summary is never null and null
\* is never offered for publishing.
C7_NoUsableTextIsFailure ==
    /\ summary # NoneValue
    /\ \A i \in 1..Len(posts) : posts[i].body # NoneValue
    /\ (Len(requests) = 1 /\ lastResponse.kind = "message"
           /\ lastResponse.content = NoneValue)
          => (pc = "Exited" /\ exitStatus = 1)

\* C8: the revision loop is entered only after a usable initial summary
\* exists: with no child issue or no issue data the process exits before any
\* completion call; if the initial completion call fails the process exits
\* with a failure status before any prompt; and then nothing is published.
C8_LoopOnlyWithUsableSummary ==
    /\ pc = "AwaitingDecision" => summary \in Texts
    /\ pc \in Prompts \cup LoopTerminal => (issues_data # <<>> /\ requests # <<>>)
    /\ (pc = "Exited" /\ (child_issues = <<>> \/ issues_data = <<>>))
          => requests = <<>>
    /\ (Len(requests) = 1 /\ lastResponse.kind \in {"error", "no_choices"})
          => (pc = "Exited" /\ exitStatus = 1)
    /\ pc = "Exited" => (inputsRead = 0 /\ posts = <<>>)

\* C9: a run whose last input is "y" at a decision prompt with a successful
\* publish, or a form of "done" at the instruction prompt, has returned and
\* reads nothing more; and the loop ends in no other way than after a publish
\* attempt or after "done".
C9_LoopEndsOnlyByPostOrDone ==
    /\ (lastPrompt \in {"AwaitingDecision", "AwaitingRevisedDecision"}
           /\ lastInput \in YesLines /\ posts # <<>> /\ LastPost.ok)
          => pc = "Published"
    /\ (lastPrompt = "AwaitingInstruction" /\ lastInput \in DoneLines)
          => pc = "Aborted"
    /\ pc \in LoopTerminal
          => /\ exitStatus = 0
             /\ ~ENABLED Next
             /\ \/ /\ pc \in {"Published", "PublishFailed"}
                   /\ lastPrompt \in {"AwaitingDecision", "AwaitingRevisedDecision"}
                   /\ lastInput \in YesLines
                   /\ posts # <<>>
                   /\ (pc = "Published") <=> LastPost.ok
                \/ /\ pc = "Aborted"
                   /\ lastPrompt = "AwaitingInstruction"
                   /\ lastInput \in DoneLines
    /\ inputsRead > 0 => pc \in Prompts \cup LoopTerminal

C9_Witness ==
    /\ pc = "Published"
    /\ lastPrompt = "AwaitingRevisedDecision"
    /\ Len(posts) = 2
    /\ ~posts[1].ok

\* C10: a session that reaches the loop makes exactly one completion call for
\* the initial summary plus one per line other than "done" read at the
\* instruction prompt; no completion call is made for an input at a decision
\* prompt or for the outcome of a publish.
C10_OneCallPerInstruction ==
    /\ [](pc \in Prompts \cup LoopTerminal => Len(requests) = 1 + revisions)
    /\ [](pc \notin Prompts \cup LoopTerminal => (Len(requests) <= 1 /\ revisions = 0))
    /\ [][requests' # requests
            => /\ pc \in {"assemble", "AwaitingInstruction"}
               /\ Len(requests') = Len(requests) + 1]_vars
    /\ [][(pc \in {"AwaitingDecision", "AwaitingRevisedDecision"})
            => requests' = requests]_vars

C10_Witness ==
    /\ pc = "AwaitingInstruction"
    /\ Len(requests) = 3
    /\ revisions = 2
    /\ Len(posts) = 1
    /\ lastInput \in YesLines

\* C11: at the first prompt any input other than "y" or "n" (trimmed,
\* lower-cased) is no error: the loop asks again and stays at the first
\* prompt, the summary is unchanged and no completion call and no publish
\* call is made; this may repeat any number of times.
C11_OtherInputAsksAgain ==
    /\ [][(pc = "AwaitingDecision" /\ inputsRead' # inputsRead
              /\ lastInput' \notin YesLines \cup { <<"n">> })
            => /\ pc' = "AwaitingDecision"
               /\ exitStatus' = -1
               /\ summary' = summary
               /\ requests' = requests
               /\ posts' = posts]_vars
    /\ [](pc = "AwaitingDecision"
            => (inputsRead = MaxInputs \/ ENABLED (\E l \in InputLines : Decide(l))))

C11_Witness ==
    /\ pc = "AwaitingDecision"
    /\ inputsRead = 3
    /\ lastInput = <<" ", "D", "o", "N", "E", " ">>
    /\ Len(requests) = 1
    /\ posts = <<>>

\* C12: at the revised-summary prompt any input other than "y" leads back to
\* the instruction prompt without a publish attempt and with the revised
\* summary kept, so that further instructions (or "done") are accepted; once
\* the operator has answered "n" at the first prompt the loop never returns
\* to the first prompt.
C12_DeclineReturnsToInstruction ==
    /\ [][(pc = "AwaitingRevisedDecision" /\ inputsRead' # inputsRead
              /\ lastInput' \notin YesLines)
            => /\ pc' = "AwaitingInstruction"
               /\ posts' = posts
               /\ requests' = requests
               /\ summary' = summary
               /\ summary' = lastResponse.content]_vars
    /\ [][(pc \in {"AwaitingInstruction", "AwaitingRevisedDecision"})
            => pc' # "AwaitingDecision"]_vars
    /\ [](pc = "AwaitingInstruction"
            => (inputsRead = MaxInputs \/ ENABLED (\E l \in InputLines : Instruct(l))))

C12_Witness ==
    /\ pc = "AwaitingRevisedDecision"
    /\ revisions = 2
    /\ inputsRead = 4
    /\ posts = <<>>
    /\ requests[3].user[2] = "draft B"
    /\ summary = "draft A"

\* C15: within review_and_post_summary the summary changes only in the step
\* in which a revision completion call returns, and there it becomes exactly
\* that call's content; any input at a decision prompt, a publish attempt and
\* its outcome, a revision that raises and "done" leave it unchanged; the
\* instructions never change during the session.
C15_SummarySingleWriter ==
    /\ [][(pc \in Prompts /\ summary' # summary)
            => /\ pc = "AwaitingInstruction"
               /\ Len(requests') = Len(requests) + 1
               /\ lastResponse'.kind = "message"]_vars
    /\ [][(pc = "AwaitingInstruction" /\ requests' # requests)
            => summary' = IF lastResponse'.kind = "message"
                          THEN lastResponse'.content ELSE summary]_vars
    /\ [][(pc \in {"AwaitingDecision", "AwaitingRevisedDecision"} \/ posts' # posts
              \/ pc' = "Aborted")
            => summary' = summary]_vars
    /\ [][(pc \notin {"start"}) => instructions' = instructions]_vars
    /\ [](pc \in Prompts \cup LoopTerminal => instructions = env.instructions_txt)

C15_Witness ==
    /\ pc = "AwaitingInstruction"
    /\ lastResponse.kind = "error"
    /\ revisions = 3
    /\ summary = "draft B"
    /\ requests[2].user[2] = "draft A"
    /\ requests[3].user[2] = "draft A"
    /\ requests[4].user[2] = "draft B"

-----------------------------------------------------------------------------
(* Runs over the tracker's answers: every list of at most MaxChildren child  *)
(* issues drawn from ChildPool, every --comments value up to MaxN, and an    *)
(* operator who types at most MaxGatherInputs of the lines GatherLines       *)

MaxChildren == 2
MaxN == 2
MaxGatherInputs == 3

NullBodyComment == << Comment(Val(<<"carol">>), Null) >>

ChildPool ==
    { Child("fail", "ok", OneComment),
      Child("ok", "not_list", <<>>),
      Child("ok", "request_error", OneComment),
      Child("ok", "ok", ThreeComments),
      Child("ok", "ok", NullUserComment),
      Child("ok", "ok", NullBodyComment) }

GatherEnvs ==
    { Env(cs, n, "be brief") :
        cs \in UNION { [1..k -> ChildPool] : k \in 0..MaxChildren }, n \in 0..MaxN }

GatherLines == { <<"y">>, <<"n">>, <<"s", "h", "o", "r", "t", "e", "r">> }

InitGather ==
    /\ env \in GatherEnvs
    /\ pc = "start"
    /\ exitStatus = -1
    /\ instructions = ""
    /\ nComments = 0
    /\ child_issues = <<>>
    /\ nextChild = 1
    /\ issues_data = <<>>
    /\ summary = ""
    /\ requests = <<>>
    /\ posts = <<>>
    /\ inputsRead = 0
    /\ lastPrompt = "none"
    /\ lastInput = <<>>
    /\ lastResponse = Response("none", "")
    /\ lastReturned = ""
    /\ revisions = 0

NextGather ==
    \/ Startup
    \/ FetchChildIssues
    \/ GatherChild
    \/ AssembleSummary
    \/ \E line \in GatherLines : inputsRead < MaxGatherInputs /\ Decide(line)
    \/ \E line \in GatherLines : inputsRead < MaxGatherInputs /\ Instruct(line)
    \/ \E line \in GatherLines : inputsRead < MaxGatherInputs /\ DecideRevised(line)

SpecGather == InitGather /\ [][NextGather]_vars

-----------------------------------------------------------------------------
(* Properties of assemble_summary, fetch_recent_comments and the gathering *)

\* the first k units of a text, or all of it when it is shorter
FirstUnits(b, k) == [i \in 1..(IF Len(b) <= k THEN Len(b) ELSE k) |-> b[i]]

\* the line a comment is to give: its author, or "unknown" when it has none,
\* and the first 200 units of its body, nothing when it has none
ExpectedLine(c) ==
    <<"- ">> \o (IF c.user.kind = "val" THEN c.user.val ELSE <<"unknown">>)
        \o <<": ">> \o (IF c.body.kind = "val" THEN FirstUnits(c.body.val, 200) ELSE <<>>)
        \o <<"\n">>

RECURSIVE ExpectedLines(_, _)
ExpectedLines(cs, k) ==
    IF k = 0 THEN <<>> ELSE ExpectedLines(cs, k - 1) \o ExpectedLine(cs[k])

RECURSIVE ExpectedContext(_, _)
ExpectedContext(issues, k) ==
    IF k = 0 THEN <<>>
    ELSE ExpectedContext(issues, k - 1)
            \o <<"Issue: ", issues[k].title, "\n">>
            \o ExpectedLines(issues[k].comments, Len(issues[k].comments))
            \o <<"\n">>

\* main is past the gathering of a non-empty issues_data
Gathered_Done ==
    /\ pc \notin {"start", "fetch_children", "gather"}
    /\ issues_data # <<>>

\* C13: the context built for a list of issues is, per issue in input order,
\* the line "Issue: {title}", one line "- {author}: {body}" per comment in
\* the given order and a blank line; a body contributes exactly its first
\* 200 units; nothing is dropped, reordered or duplicated; and this context
\* is the user content of the initial completion call.
C13_ContextIsLinesInOrder ==
    requests # <<>>
        => /\ requests[1].user = ExpectedContext(issues_data, Len(issues_data))
           /\ requests[1].system = env.instructions_txt
           /\ \A i \in 1..Len(requests[1].user) : requests[1].user[i] # "!"

C13_Witness ==
    /\ pc = "AwaitingDecision"
    /\ Len(issues_data) = 2
    /\ Len(issues_data[2].comments) = 2
    /\ issues_data[2].comments[1].body = Val(LongBody)
    /\ Len(requests[1].user) > TruncLen + 10

\* C14: assembly is total over comments with missing optional fields: a
\* comment without an author is rendered with the author "unknown", one
\* without a body with an empty body; assembly does not fail and the session
\* does not end for them, and the other comments and issues are rendered
\* unaffected.
C14_MissingFieldsAreDefaulted ==
    Gathered_Done
        => /\ pc = "assemble" \/ requests # <<>>
           /\ requests # <<>>
                 => requests[1].user = ExpectedContext(issues_data, Len(issues_data))

\* the child issue an entry of issues_data was gathered from
ChildOf(issue) ==
    env.sub_issues[CHOOSE k \in 1..Len(TitlePool) : TitlePool[k] = issue.title]

\* the last m elements of a list
LastElements(cs, m) == [j \in 1..m |-> cs[Len(cs) - m + j]]

\* C16: for every n >= 0 and every comment list of the tracker,
\* fetch_recent_comments returns the last n comments in their order, or all
\* of them when there are fewer than n; never more than n, none for n = 0.
C16_AtMostNMostRecent ==
    \A i \in 1..Len(issues_data) :
        ChildOf(issues_data[i]).comments = "ok"
            => LET cs == ChildOf(issues_data[i]).list
                   m == IF Len(cs) < nComments THEN Len(cs) ELSE nComments
               IN /\ Len(issues_data[i].comments) <= nComments
                  /\ issues_data[i].comments = LastElements(cs, m)

\* the titles of the first k children that keep(child) holds of
RECURSIVE KeptTitles(_, _)
KeptTitles(keep(_), k) ==
    IF k = 0 THEN <<>>
    ELSE IF keep(env.sub_issues[k])
         THEN Append(KeptTitles(keep, k - 1), TitlePool[k])
         ELSE KeptTitles(keep, k - 1)

IssueFetched(child) == child.issue = "ok"

IssueAndCommentsUsable(child) == child.issue = "ok" /\ child.comments # "not_list"

\* the gathering, with keep(child) telling the children that are collected
GatheringCollects(keep(_)) ==
    LET done == IF pc \in {"start", "fetch_children"} THEN 0 ELSE nextChild - 1
    IN /\ [i \in 1..Len(issues_data) |-> issues_data[i].title] = KeptTitles(keep, done)
       /\ \A i \in 1..Len(issues_data) :
             ChildOf(issues_data[i]).comments = "request_error"
                => issues_data[i].comments = <<>>
       /\ pc = "gather" => exitStatus = -1
       /\ (child_issues # <<>> /\ done = Len(child_issues))
             => IF issues_data = <<>>
                THEN pc = "Exited" /\ exitStatus = 1 /\ requests = <<>>
                ELSE pc = "assemble" \/ requests # <<>> \/ ContextRaises(issues_data)

\* C17 as stated: a child issue that cannot be fetched is skipped with the
\* run going on, a failed comments request keeps the issue with no comments,
\* the issues passed on are exactly the fetched child issues in the
\* tracker's order, and the run aborts only if none was collected.
C17_FetchedIssuesAreCollected == GatheringCollects(IssueFetched)

\* C17, amended: as above, but a child issue whose comments answer is not a
\* list is skipped like one that could not be fetched; the issues passed on
\* are exactly the fetched child issues whose comments answer was a list or
\* whose comments request failed, in the tracker's order.
C17_UsableIssuesAreCollected == GatheringCollects(IssueAndCommentsUsable)

C17_Witness ==
    /\ pc = "assemble"
    /\ Len(child_issues) = 2
    /\ env.sub_issues[1].issue = "fail"
    /\ env.sub_issues[2].comments = "request_error"
    /\ issues_data = << [title |-> "Bug B", comments |-> <<>>] >>

====
